---- MODULE Spec2Model ----
(***************************************************************************)
(* Taskflow backend (backend/server.py): the task-intelligence functions   *)
(* analyze_task_priority and generate_task_summary, with the process-wide  *)
(* configuration they read and the chat client they await.                 *)
(*                                                                         *)
(* Texts are strings; TLC evaluates Len, \o and SubSeq on strings, so the  *)
(* keyword search, the word count and the truncation are computed on the   *)
(* characters as the code computes them.  Instants are whole seconds.      *)
(***************************************************************************)
EXTENDS Integers, Sequences, FiniteSets, TLC

VARIABLES hasKey,       \* bool(EMERGENT_LLM_KEY): the credential is set and non-empty
          aiAvailable,  \* _AI_AVAILABLE: the emergentintegrations import succeeded
          req,          \* per request slot: the state of one call of an AI service function
          users,        \* db.users: the user documents
          tasksDb,      \* db.tasks: the task documents
          reg,          \* per slot: the state of one POST /auth/register request
          crud,         \* the response of the task endpoint that finished last
          nextId        \* the uuid4 values handed out so far, plus one

vars == <<hasKey, aiAvailable, req, users, tasksDb, reg, crud, nextId>>

\* ---------------------------------------------------------------- bounds
NumReqs == 2      \* request slots
MaxTasks == 2     \* longest task list handed to generate_task_summary
NumRegs == 2      \* register request slots
MaxCreated == 2   \* tasks created by POST /tasks in one run

Reqs == 1..NumReqs

\* ---------------------------------------------------------------- text helpers
Max(a, b) == IF a >= b THEN a ELSE b
Min(a, b) == IF a <= b THEN a ELSE b

\* str.lower() on one character
LowerChar(c) ==
    CASE c = "A" -> "a" [] c = "B" -> "b" [] c = "C" -> "c" [] c = "D" -> "d" [] c = "E" -> "e"
      [] c = "F" -> "f" [] c = "G" -> "g" [] c = "H" -> "h" [] c = "I" -> "i" [] c = "J" -> "j"
      [] c = "K" -> "k" [] c = "L" -> "l" [] c = "M" -> "m" [] c = "N" -> "n" [] c = "O" -> "o"
      [] c = "P" -> "p" [] c = "Q" -> "q" [] c = "R" -> "r" [] c = "S" -> "s" [] c = "T" -> "t"
      [] c = "U" -> "u" [] c = "V" -> "v" [] c = "W" -> "w" [] c = "X" -> "x" [] c = "Y" -> "y"
      [] c = "Z" -> "z"
      [] OTHER -> c

\* str.lower()
RECURSIVE Lower(_)
Lower(s) ==
    IF Len(s) <= 1 THEN LowerChar(s)
    ELSE Lower(SubSeq(s, 1, Len(s) \div 2)) \o Lower(SubSeq(s, Len(s) \div 2 + 1, Len(s)))

\* w in text (substring test)
Contains(text, w) ==
    \E i \in 1..(Len(text) - Len(w) + 1) : SubSeq(text, i, i + Len(w) - 1) = w

\* any(w in text for w in words)
AnyIn(words, text) == \E k \in 1..Len(words) : Contains(text, words[k])

\* len(s.split()): the number of maximal runs of non-blank characters
WordCount(s) ==
    Cardinality({i \in 1..Len(s) :
        /\ SubSeq(s, i, i) # " "
        /\ (i = 1 \/ SubSeq(s, i - 1, i - 1) = " ")})

\* sep.join(parts)
RECURSIVE Join(_, _)
Join(sep, parts) ==
    IF parts = <<>> THEN ""
    ELSE IF Len(parts) = 1 THEN parts[1]
    ELSE parts[1] \o sep \o Join(sep, Tail(parts))

\* s * n
RECURSIVE Repeat(_, _)
Repeat(s, n) ==
    IF n = 0 THEN "" ELSE IF n = 1 THEN s
    ELSE Repeat(s, n \div 2) \o Repeat(s, n - n \div 2)

\* ---------------------------------------------------------------- optional values
\* Optional[str] / Optional[datetime]: None or a value
NoDescription == [present |-> FALSE, text |-> ""]
SomeDescription(s) == [present |-> TRUE, text |-> s]
NoDueDate == [present |-> FALSE, ts |-> 0]
SomeDueDate(t) == [present |-> TRUE, ts |-> t]

\* f"{description}": None formats as "None"
FormatDescription(d) == IF d.present THEN d.text ELSE "None"

\* ---------------------------------------------------------------- heuristic engine
SecondsPerHour == 3600

high_words == <<"urgent", "asap", "today", "now", "immediately", "critical",
                "deadline", "bug", "prod", "exam", "submit">>
med_words == <<"soon", "important", "review", "prepare", "meeting", "follow up", "todo">>
low_words == <<"optional", "someday", "later", "idea", "backlog", "nice to have">>

\* Faulty variant: the bucket limits exclusive
DueDateRuleExclusive(score, due, now) ==
    IF ~due.present THEN [score |-> score, reasons |-> <<>>]
    ELSE LET delta == due.ts - now IN
        IF delta < 0
          THEN [score |-> score + 3, reasons |-> <<"Past due: increase urgency">>]
        ELSE IF delta < 3 * 3600
          THEN [score |-> Max(score, 8), reasons |-> <<"Due within 3 hours">>]
        ELSE IF delta < 24 * 3600
          THEN [score |-> score + 4, reasons |-> <<"Due within 24 hours">>]
        ELSE IF delta < 72 * 3600
          THEN [score |-> score + 2, reasons |-> <<"Due in 1-3 days">>]
        ELSE IF delta < 168 * 3600
          THEN [score |-> score + 1, reasons |-> <<"Due this week">>]
        ELSE [score |-> score - 1, reasons |-> <<"Due later than a week">>]

\* The due-date branch: delta_hours = (due_date - now).total_seconds() / 3600.0,
\* compared here in seconds.  A naive due_date is read as UTC, so an instant
\* stands for both.  Yields the score and the reasons after the branch.
DueDateRule(score, due, now) ==
    IF ~due.present THEN [score |-> score, reasons |-> <<>>]
    ELSE LET delta == due.ts - now IN
        IF delta <= 0
          THEN [score |-> score + 3, reasons |-> <<"Past due: increase urgency">>]
        ELSE IF delta <= 3 * SecondsPerHour
          THEN [score |-> Max(score, 8), reasons |-> <<"Due within 3 hours">>]
        ELSE IF delta <= 24 * SecondsPerHour
          THEN [score |-> score + 4, reasons |-> <<"Due within 24 hours">>]
        ELSE IF delta <= 72 * SecondsPerHour
          THEN [score |-> score + 2, reasons |-> <<"Due in 1-3 days">>]
        ELSE IF delta <= 168 * SecondsPerHour
          THEN [score |-> score + 1, reasons |-> <<"Due this week">>]
        ELSE [score |-> score - 1, reasons |-> <<"Due later than a week">>]

\* Faulty variant: the three tests chained with elif, so at most one fires
KeywordRuleElif(score, text) ==
    IF AnyIn(high_words, text)
      THEN [score |-> score + 3, reasons |-> <<"High-urgency keywords detected">>]
    ELSE IF AnyIn(med_words, text)
      THEN [score |-> score + 1, reasons |-> <<"Important keywords detected">>]
    ELSE IF AnyIn(low_words, text)
      THEN [score |-> score - 2, reasons |-> <<"Low-urgency keywords detected">>]
    ELSE [score |-> score, reasons |-> <<>>]

\* The three keyword tests on the lower-cased "title description" text: three
\* separate ifs
KeywordRule(score, text) ==
    LET h == AnyIn(high_words, text)
        m == AnyIn(med_words, text)
        l == AnyIn(low_words, text)
    IN [score |-> score + (IF h THEN 3 ELSE 0) + (IF m THEN 1 ELSE 0) - (IF l THEN 2 ELSE 0),
        reasons |-> (IF h THEN <<"High-urgency keywords detected">> ELSE <<>>)
                 \o (IF m THEN <<"Important keywords detected">> ELSE <<>>)
                 \o (IF l THEN <<"Low-urgency keywords detected">> ELSE <<>>)]

\* len(description.split()) if description else 0, then the >= 40 test
ComplexityRule(score, description) ==
    LET length == IF description.present /\ description.text # ""
                  THEN WordCount(description.text) ELSE 0
    IN IF length >= 40
       THEN [score |-> score + 1, reasons |-> <<"Longer description suggests more complexity">>]
       ELSE [score |-> score, reasons |-> <<>>]

\* The score before the clamp, with the reasons of the rules that fired
RawScore(title, description, due, now) ==
    LET d == DueDateRule(5, due, now)
        text == Lower(title \o " " \o FormatDescription(description))
        k == KeywordRule(d.score, text)
        c == ComplexityRule(k.score, description)
    IN [score |-> c.score, reasons |-> d.reasons \o k.reasons \o c.reasons]

\* Faulty variant: the floor without the ceiling
ClampNoCeiling(score) == Max(1, score)

\* max(1, min(10, int(round(score)))): score is an int, which round and int keep
Clamp(score) == Max(1, Min(10, score))

\* Faulty variant: strict comparisons
PriorityLabelOffByOne(score) ==
    IF score > 8 THEN "high" ELSE IF score > 5 THEN "medium" ELSE "low"

\* if score >= 8 ... elif score >= 5 ... else
PriorityLabel(score) ==
    IF score >= 8 THEN "high" ELSE IF score >= 5 THEN "medium" ELSE "low"

\* "; ".join(reasons) or "Heuristic analysis completed"
Reasoning(reasons) ==
    IF Join("; ", reasons) = "" THEN "Heuristic analysis completed" ELSE Join("; ", reasons)

\* The heuristic branch of analyze_task_priority
Heuristic(title, description, due, now) ==
    LET raw == RawScore(title, description, due, now)
        score == Clamp(raw.score)
    IN [suggested_priority |-> PriorityLabel(score),
        reasoning |-> Reasoning(raw.reasons),
        urgency_score |-> score]

\* ---------------------------------------------------------------- outcomes
\* What evaluating a block of code yields: a value, or a raised exception
Ok(v) == [exc |-> FALSE, val |-> v]
Raised == [exc |-> TRUE, val |-> [none |-> TRUE]]

\* Faulty variant: a handler that catches nothing
PropagateException(outcome, fallback) == outcome

\* try: ... except Exception: return fallback   (lines 273/324, 402/451)
ExceptException(outcome, fallback) == IF outcome.exc THEN Ok(fallback) ELSE outcome

\* try: ... except: return fallback   (lines 309/316, 436/443)
ExceptBare(outcome, fallback) == IF outcome.exc THEN Ok(fallback) ELSE outcome

\* ---------------------------------------------------------------- adapter replies
\* A JSON value of a reply object's field, or its absence from the object
JAbsent == [t |-> "absent"]
JNull == [t |-> "null"]
JStr(s) == [t |-> "str", s |-> s]
JInt(n) == [t |-> "int", n |-> n]
JFloat(x) == [t |-> "float", tenths |-> x]     \* the number x / 10
JList(l) == [t |-> "list", l |-> l]            \* a list of strings

FieldNames == <<"suggested_priority", "reasoning", "urgency_score",
                "summary", "insights", "recommendations">>

NoFields == [n \in {FieldNames[i] : i \in 1..Len(FieldNames)} |-> JAbsent]

IntText(n) ==
    CASE n = 0 -> "0" [] n = 3 -> "3" [] n = 5 -> "5" [] n = 9 -> "9" [] n = 42 -> "42"
      [] OTHER -> "1"

FloatText(x) == CASE x = 79 -> "7.9" [] x = -15 -> "-1.5" [] OTHER -> "0.5"

\* The JSON text of a field value
JsonValue(fv) ==
    CASE fv.t = "null" -> "null"
      [] fv.t = "str" -> "\"" \o fv.s \o "\""
      [] fv.t = "int" -> IntText(fv.n)
      [] fv.t = "float" -> FloatText(fv.tenths)
      [] fv.t = "list" -> "[" \o Join(", ", [i \in 1..Len(fv.l) |-> "\"" \o fv.l[i] \o "\""]) \o "]"
      [] OTHER -> ""

\* The JSON text of an object holding the fields that are present
JsonText(fields) ==
    LET present == SelectSeq(FieldNames, LAMBDA n : fields[n].t # "absent")
    IN "{" \o Join(", ", [i \in 1..Len(present) |->
                "\"" \o present[i] \o "\": " \o JsonValue(fields[present[i]])]) \o "}"

\* What chat.send_message returns: a text, with what json.loads makes of it
\* ("text": not JSON; "array": JSON but no object; "object": a JSON object)
TextReply(s) == [shape |-> "text", text |-> s, fields |-> NoFields]
ArrayReply == [shape |-> "array", text |-> "[1, 2]", fields |-> NoFields]
ObjectReply(fields) == [shape |-> "object", text |-> JsonText(fields), fields |-> fields]
NoReply == [shape |-> "none", text |-> "", fields |-> NoFields]

\* _NoopChat.send_message
NoopReply == TextReply("AI integration disabled")

\* json.loads(response)
JsonLoads(reply) == IF reply.shape = "text" THEN Raised ELSE Ok(reply)

\* Faulty variant: ai_data.get(name), which gives None for a missing key
GetFieldNoDefault(data, name, default) ==
    IF data.shape # "object" THEN Raised
    ELSE IF data.fields[name].t = "absent" THEN Ok(JNull)
    ELSE Ok(data.fields[name])

\* ai_data.get(name, default): AttributeError unless ai_data is a dict
GetField(data, name, default) ==
    IF data.shape # "object" THEN Raised
    ELSE IF data.fields[name].t = "absent" THEN Ok(default)
    ELSE Ok(data.fields[name])

IsDigit(c) == c \in {"0", "1", "2", "3", "4", "5", "6", "7", "8", "9"}

DigitValue(c) ==
    CASE c = "0" -> 0 [] c = "1" -> 1 [] c = "2" -> 2 [] c = "3" -> 3 [] c = "4" -> 4
      [] c = "5" -> 5 [] c = "6" -> 6 [] c = "7" -> 7 [] c = "8" -> 8 [] OTHER -> 9

RECURSIVE DigitsValue(_)
DigitsValue(s) ==
    IF s = "" THEN 0
    ELSE 10 * DigitsValue(SubSeq(s, 1, Len(s) - 1)) + DigitValue(SubSeq(s, Len(s), Len(s)))

\* int(x): an int is kept, a float is truncated toward zero, a string of
\* digits is read; None, a list and any other string raise
IntOf(fv) ==
    CASE fv.t = "int" -> Ok(fv.n)
      [] fv.t = "float" -> Ok(IF fv.tenths >= 0 THEN fv.tenths \div 10
                              ELSE -((-fv.tenths) \div 10))
      [] fv.t = "str" -> IF fv.s # "" /\ \A i \in 1..Len(fv.s) : IsDigit(SubSeq(fv.s, i, i))
                         THEN Ok(DigitsValue(fv.s)) ELSE Raised
      [] OTHER -> Raised

\* Model validation of a str field and of a List[str] field
ValidStr(fv) == fv.t = "str"
ValidList(fv) == fv.t = "list"

\* ---------------------------------------------------------------- results
EmptySummary ==
    [summary |-> "No tasks to summarize", insights |-> <<>>, recommendations |-> <<>>]

UnavailableSummary ==
    [summary |-> "AI analysis temporarily unavailable",
     insights |-> <<"System is processing your tasks">>,
     recommendations |-> <<"Continue with your current workflow">>]

\* response[:200] + "..." if len(response) > 200 else response
Truncate(response) ==
    IF Len(response) > 200 THEN SubSeq(response, 1, 200) \o "..." ELSE response

FallbackSummary(reply) ==
    [summary |-> Truncate(reply.text),
     insights |-> <<"AI analysis completed">>,
     recommendations |-> <<"Continue managing tasks effectively">>]

FallbackPriority ==
    [suggested_priority |-> "medium",
     reasoning |-> "AI suggested medium priority based on task analysis",
     urgency_score |-> 5]

UnavailablePriority ==
    [suggested_priority |-> "medium",
     reasoning |-> "Priority analysis temporarily unavailable",
     urgency_score |-> 5]

\* ---------------------------------------------------------------- parsing
\* The body of the inner try of analyze_task_priority
ParsePriorityStrict(reply) ==
    LET data == JsonLoads(reply) IN
    IF data.exc THEN Raised
    ELSE LET sp == GetField(data.val, "suggested_priority", JStr("medium"))
             rs == GetField(data.val, "reasoning", JStr("Analysis completed"))
             us == GetField(data.val, "urgency_score", JInt(5))
         IN IF sp.exc \/ rs.exc \/ us.exc THEN Raised
            ELSE IF IntOf(us.val).exc THEN Raised
            ELSE IF ~ValidStr(sp.val) \/ ~ValidStr(rs.val) THEN Raised
            ELSE Ok([suggested_priority |-> sp.val.s,
                     reasoning |-> rs.val.s,
                     urgency_score |-> IntOf(us.val).val])

\* What analyze_task_priority returns once the chat client has replied
AnalyzeOnReply(reply) ==
    ExceptException(ExceptBare(ParsePriorityStrict(reply), FallbackPriority),
                    UnavailablePriority)

\* Faulty variant: the handler falls back to the heuristic engine
AnalyzeOnFailureHeuristic(title, description, due) ==
    Ok(Heuristic(title, description, due, 0))

\* What analyze_task_priority returns when the chat client raises
AnalyzeOnFailure(title, description, due) == ExceptException(Raised, UnavailablePriority)

\* The body of the inner try of generate_task_summary
ParseSummaryStrict(reply) ==
    LET data == JsonLoads(reply) IN
    IF data.exc THEN Raised
    ELSE LET sm == GetField(data.val, "summary", JStr("Task analysis completed"))
             ins == GetField(data.val, "insights", JList(<<>>))
             rec == GetField(data.val, "recommendations", JList(<<>>))
         IN IF sm.exc \/ ins.exc \/ rec.exc THEN Raised
            ELSE IF ~ValidStr(sm.val) \/ ~ValidList(ins.val) \/ ~ValidList(rec.val) THEN Raised
            ELSE Ok([summary |-> sm.val.s,
                     insights |-> ins.val.l,
                     recommendations |-> rec.val.l])

SummaryOnReply(reply) ==
    ExceptException(ExceptBare(ParseSummaryStrict(reply), FallbackSummary(reply)),
                    UnavailableSummary)

\* Faulty variant: the handler returns the empty-list result
SummaryOnFailureEmpty == Ok(EmptySummary)

\* What generate_task_summary returns when the chat client raises
SummaryOnFailure == ExceptException(Raised, UnavailableSummary)

\* ---------------------------------------------------------------- task lists
\* A task dict handed to generate_task_summary
TaskDict(hasTitle, title, priority, status, description) ==
    [hasTitle |-> hasTitle, title |-> title, priority |-> priority,
     status |-> status, description |-> description]

\* One line of the prompt; task['title'] raises KeyError when the key is missing
TaskInfo(task) ==
    IF ~task.hasTitle THEN Raised
    ELSE Ok("- " \o task.title \o " (Priority: " \o task.priority \o ", Status: "
            \o task.status \o ")"
            \o (IF task.description.present /\ task.description.text # ""
                THEN ": " \o task.description.text ELSE ""))

\* "\n".join(task_data), or the exception of the first task that raises
BuildTaskList(tasks) ==
    IF \E i \in 1..Len(tasks) : TaskInfo(tasks[i]).exc THEN Raised
    ELSE Ok(Join("\n", [i \in 1..Len(tasks) |-> TaskInfo(tasks[i]).val]))

\* ---------------------------------------------------------------- inputs
Titles == {"Plan", "Submit report now", "Someday idea", "Review notes",
           "URGENT review later", "Optional bug", "Prepare backlog", "Asap meeting"}

Descriptions == {NoDescription, SomeDescription(""), SomeDescription("do it later"),
                 SomeDescription(Repeat("w ", 39)), SomeDescription(Repeat("w ", 40))}

\* datetime.now(timezone.utc) at the call, and the due dates around the
\* bucket limits (3 h, 24 h, 72 h, 168 h after instant 0)
Nows == {0, 1}

DueDates == {NoDueDate} \cup
            {SomeDueDate(t) : t \in {0, 1, 10800, 10801, 86400, 86401,
                                     259200, 259201, 604800, 604801}}

Tasks == {TaskDict(TRUE, "Write report", "high", "pending", SomeDescription("for the board")),
          TaskDict(TRUE, "Buy milk", "low", "completed", NoDescription),
          TaskDict(FALSE, "", "medium", "pending", NoDescription)}

RECURSIVE SeqsUpTo(_, _)
SeqsUpTo(S, n) ==
    IF n = 0 THEN {<<>>}
    ELSE SeqsUpTo(S, n - 1) \cup
         {Append(q, x) : q \in {p \in SeqsUpTo(S, n - 1) : Len(p) = n - 1}, x \in S}

TaskLists == SeqsUpTo(Tasks, MaxTasks)

PriorityObjects ==
    {ObjectReply([NoFields EXCEPT !["suggested_priority"] = sp,
                                  !["reasoning"] = rs,
                                  !["urgency_score"] = us]) :
        sp \in {JAbsent, JNull, JStr("low"), JStr("high"), JStr("top")},
        rs \in {JAbsent, JNull, JStr("because")},
        us \in {JAbsent, JNull, JInt(0), JInt(3), JInt(9), JInt(42), JStr("7"), JStr("abc"),
                JFloat(79), JFloat(-15)}}

SummaryObjects ==
    {ObjectReply([NoFields EXCEPT !["summary"] = sm,
                                  !["insights"] = ins,
                                  !["recommendations"] = rec]) :
        sm \in {JAbsent, JNull, JStr("Two tasks open")},
        ins \in {JAbsent, JNull, JStr("none"), JList(<<>>), JList(<<"Mostly pending">>)},
        rec \in {JAbsent, JNull, JList(<<"Start early", "Batch errands">>)}}

TextReplies == {TextReply("Sorry, I cannot help"), TextReply(Repeat("x", 200)),
                TextReply(Repeat("x", 201)), ArrayReply}

PriorityReplies == TextReplies \cup PriorityObjects
SummaryReplies == TextReplies \cup SummaryObjects

\* ---------------------------------------------------------------- requests
IdleReq ==
    [pc |-> "idle", op |-> "none", title |-> "", description |-> NoDescription,
     due |-> NoDueDate, now |-> 0, tasks |-> <<>>, calls |-> 0, failed |-> FALSE,
     reply |-> NoReply, res |-> Raised]

\* Faulty variant: the credential test alone
UseHeuristicKeyOnly == ~hasKey

\* if not EMERGENT_LLM_KEY or not _AI_AVAILABLE   (analyze_task_priority)
UseHeuristic == ~hasKey \/ ~aiAvailable

\* if not tasks or not EMERGENT_LLM_KEY   (generate_task_summary)
SummaryReturnsEarly(tasks) == tasks = <<>> \/ ~hasKey

\* ---------------------------------------------------------------- stores
Regs == 1..NumRegs

IdleReg == [pc |-> "idle", email |-> "", code |-> 0]

NoResponse == [op |-> "none", user |-> 0, id |-> 0, code |-> 0, total |-> 0]

\* A document of db.users and of db.tasks (the fields the endpoints filter on)
UserDoc(id, email) == [id |-> id, email |-> email]
TaskDoc(id, user, status) == [id |-> id, user_id |-> user, status |-> status]

Init ==
    /\ hasKey \in BOOLEAN
    /\ aiAvailable \in BOOLEAN
    /\ req = [r \in Reqs |-> IdleReq]
    /\ users = {}
    /\ tasksDb = {}
    /\ reg = [g \in Regs |-> IdleReg]
    /\ crud = NoResponse
    /\ nextId = 1

\* analyze_task_priority, heuristic branch: no await, the call runs to its return
AnalyzeHeuristic(r, title, description, due, now) ==
    /\ req[r].pc = "idle"
    /\ UseHeuristic
    /\ req' = [req EXCEPT ![r] =
                 [IdleReq EXCEPT !.pc = "done", !.op = "analyze", !.title = title,
                                 !.description = description, !.due = due,
                                 !.now = IF due.present THEN now ELSE 0,
                                 !.res = Ok(Heuristic(title, description, due, now))]]
    /\ UNCHANGED <<hasKey, aiAvailable, users, tasksDb, reg, crud, nextId>>

\* analyze_task_priority, AI branch up to await chat.send_message(user_message)
AnalyzeSend(r, title, description, due) ==
    /\ req[r].pc = "idle"
    /\ ~UseHeuristic
    /\ req' = [req EXCEPT ![r] =
                 [IdleReq EXCEPT !.pc = "awaiting", !.op = "analyze", !.title = title,
                                 !.description = description, !.due = due, !.calls = 1]]
    /\ UNCHANGED <<hasKey, aiAvailable, users, tasksDb, reg, crud, nextId>>

\* generate_task_summary: the early return
SummaryEarly(r, tasks) ==
    /\ req[r].pc = "idle"
    /\ SummaryReturnsEarly(tasks)
    /\ req' = [req EXCEPT ![r] =
                 [IdleReq EXCEPT !.pc = "done", !.op = "summary", !.tasks = tasks,
                                 !.res = Ok(EmptySummary)]]
    /\ UNCHANGED <<hasKey, aiAvailable, users, tasksDb, reg, crud, nextId>>

\* generate_task_summary: building the prompt raises, the outer handler returns
SummaryPromptFails(r, tasks) ==
    /\ req[r].pc = "idle"
    /\ ~SummaryReturnsEarly(tasks)
    /\ BuildTaskList(tasks).exc
    /\ req' = [req EXCEPT ![r] =
                 [IdleReq EXCEPT !.pc = "done", !.op = "summary", !.tasks = tasks,
                                 !.res = ExceptException(BuildTaskList(tasks),
                                                         UnavailableSummary)]]
    /\ UNCHANGED <<hasKey, aiAvailable, users, tasksDb, reg, crud, nextId>>

\* generate_task_summary up to await chat.send_message(user_message), LlmChat
\* being the real client
SummarySend(r, tasks) ==
    /\ req[r].pc = "idle"
    /\ ~SummaryReturnsEarly(tasks)
    /\ ~BuildTaskList(tasks).exc
    /\ aiAvailable
    /\ req' = [req EXCEPT ![r] =
                 [IdleReq EXCEPT !.pc = "awaiting", !.op = "summary", !.tasks = tasks,
                                 !.calls = 1]]
    /\ UNCHANGED <<hasKey, aiAvailable, users, tasksDb, reg, crud, nextId>>

\* generate_task_summary with LlmChat = _NoopChat: send_message returns at once,
\* so the call runs to its return
SummaryNoop(r, tasks) ==
    /\ req[r].pc = "idle"
    /\ ~SummaryReturnsEarly(tasks)
    /\ ~BuildTaskList(tasks).exc
    /\ ~aiAvailable
    /\ req' = [req EXCEPT ![r] =
                 [IdleReq EXCEPT !.pc = "done", !.op = "summary", !.tasks = tasks,
                                 !.calls = 1, !.reply = NoopReply,
                                 !.res = SummaryOnReply(NoopReply)]]
    /\ UNCHANGED <<hasKey, aiAvailable, users, tasksDb, reg, crud, nextId>>

\* Faulty variant: one chat session shared by the calls, so a reply ends every
\* call that is waiting
AdapterRepliesShared(r, reply) ==
    /\ req[r].pc = "awaiting"
    /\ req' = [q \in Reqs |->
                 IF req[q].pc = "awaiting"
                 THEN [req[q] EXCEPT !.pc = "done", !.reply = reply,
                                     !.res = IF req[r].op = "analyze" THEN AnalyzeOnReply(reply)
                                             ELSE SummaryOnReply(reply)]
                 ELSE req[q]]
    /\ UNCHANGED <<hasKey, aiAvailable, users, tasksDb, reg, crud, nextId>>

\* chat.send_message returns reply: the rest of the function runs to its return
AdapterReplies(r, reply) ==
    /\ req[r].pc = "awaiting"
    /\ req' = [req EXCEPT ![r].pc = "done", ![r].reply = reply,
                          ![r].res = IF req[r].op = "analyze" THEN AnalyzeOnReply(reply)
                                     ELSE SummaryOnReply(reply)]
    /\ UNCHANGED <<hasKey, aiAvailable, users, tasksDb, reg, crud, nextId>>

\* Faulty variant: a failed call is sent once more before the handler returns
AdapterFailsRetry(r) ==
    /\ req[r].pc = "awaiting"
    /\ req' = IF req[r].calls < 2
              THEN [req EXCEPT ![r].calls = req[r].calls + 1]
              ELSE [req EXCEPT ![r].pc = "done", ![r].failed = TRUE,
                               ![r].res = IF req[r].op = "analyze" THEN Ok(UnavailablePriority)
                                          ELSE Ok(UnavailableSummary)]
    /\ UNCHANGED <<hasKey, aiAvailable, users, tasksDb, reg, crud, nextId>>

\* chat.send_message raises: the outer handler returns
AdapterFails(r) ==
    /\ req[r].pc = "awaiting"
    /\ req' = [req EXCEPT ![r].pc = "done", ![r].failed = TRUE,
                          ![r].res = IF req[r].op = "analyze"
                                     THEN AnalyzeOnFailure(req[r].title, req[r].description,
                                                           req[r].due)
                                     ELSE SummaryOnFailure]
    /\ UNCHANGED <<hasKey, aiAvailable, users, tasksDb, reg, crud, nextId>>

\* The caller has the result; the slot is free again
Return(r) ==
    /\ req[r].pc = "done"
    /\ req' = [req EXCEPT ![r] = IdleReq]
    /\ UNCHANGED <<hasKey, aiAvailable, users, tasksDb, reg, crud, nextId>>

\* The caller issues one call at a time
NoneRunning == \A q \in Reqs : req[q].pc = "idle"

Next ==
    \E r \in Reqs :
        \/ NoneRunning /\ \E t \in Titles, d \in Descriptions, due \in DueDates, now \in Nows :
                AnalyzeHeuristic(r, t, d, due, now)
        \/ NoneRunning /\ \E t \in Titles, d \in Descriptions, due \in DueDates :
                AnalyzeSend(r, t, d, due)
        \/ NoneRunning /\ \E tasks \in TaskLists : SummaryEarly(r, tasks)
        \/ NoneRunning /\ \E tasks \in TaskLists : SummaryNoop(r, tasks)
        \/ NoneRunning /\ \E tasks \in TaskLists : SummaryPromptFails(r, tasks)
        \/ NoneRunning /\ \E tasks \in TaskLists : SummarySend(r, tasks)
        \/ req[r].pc = "awaiting" /\ req[r].op = "analyze" /\
                \E reply \in PriorityReplies : AdapterReplies(r, reply)
        \/ req[r].pc = "awaiting" /\ req[r].op = "summary" /\
                \E reply \in SummaryReplies : AdapterReplies(r, reply)
        \/ AdapterFails(r)
        \/ Return(r)

Spec == Init /\ [][Next]_vars

\* ---------------------------------------------------------------- concurrent calls
\* The endpoints are coroutines of one event loop: calls interleave at their
\* awaits.  The inputs of the concurrent specification.
ConcTitles == {"Plan", "Submit report now"}
ConcDueDates == {NoDueDate, SomeDueDate(10800)}
ConcTaskLists == {<<>>} \cup {<<t>> : t \in Tasks}
ConcReplies == {TextReply("Sorry, I cannot help"),
                ObjectReply([NoFields EXCEPT !["suggested_priority"] = JStr("low"),
                                             !["urgency_score"] = JInt(3),
                                             !["summary"] = JStr("Two tasks open")]),
                ObjectReply([NoFields EXCEPT !["suggested_priority"] = JStr("high"),
                                             !["urgency_score"] = JInt(9),
                                             !["insights"] = JList(<<"Mostly pending">>)])}

NextConc ==
    \E r \in Reqs :
        \/ \E t \in ConcTitles, due \in ConcDueDates, now \in Nows :
                AnalyzeHeuristic(r, t, NoDescription, due, now)
        \/ \E t \in ConcTitles, due \in ConcDueDates : AnalyzeSend(r, t, NoDescription, due)
        \/ \E tasks \in ConcTaskLists : SummaryEarly(r, tasks)
        \/ \E tasks \in ConcTaskLists : SummaryNoop(r, tasks)
        \/ \E tasks \in ConcTaskLists : SummaryPromptFails(r, tasks)
        \/ \E tasks \in ConcTaskLists : SummarySend(r, tasks)
        \/ req[r].pc = "awaiting" /\ \E reply \in ConcReplies : AdapterReplies(r, reply)
        \/ AdapterFails(r)
        \/ Return(r)

SpecConc == Init /\ [][NextConc]_vars

\* ---------------------------------------------------------------- task store
\* The length limit handed to to_list by get_dashboard_stats
ToListLimit == 1000

Statuses == {"pending", "completed"}

\* find({"user_id": current_user.id})
TasksOf(user, db) == {t \in db : t.user_id = user}

\* find_one / delete_one filter {"id": task_id, "user_id": current_user.id}
Matching(id, user, db) == {t \in db : t.id = id /\ t.user_id = user}

\* total_tasks = len(tasks), tasks being at most ToListLimit documents
DashboardTotal(user, db) == Min(ToListLimit, Cardinality(TasksOf(user, db)))

\* get_current_user: the token's user is looked up in db.users
CurrentUsers == {u.id : u \in users}

Response(op, user, id, code, total) ==
    [op |-> op, user |-> user, id |-> id, code |-> code, total |-> total]

\* The stores the task endpoints start from: user 1 owns n tasks, user 2 one.
FirstTaskId == 10
OthersTaskId == 5
MissingTaskId == 9
FirstFreeId == FirstTaskId + ToListLimit + 2
StoreSizes == {0, 2, ToListLimit + 1}
StoreOf(n) == {TaskDoc(OthersTaskId, 2, "pending")}
                  \cup {TaskDoc(FirstTaskId + i, 1, "pending") : i \in 1..n}
\* The ids the requests name: two of user 1's, user 2's, one of no task, and
\* those of the tasks created since.
RequestedIds == {FirstTaskId + 1, FirstTaskId + 2, OthersTaskId, MissingTaskId}
                    \cup (FirstFreeId..(nextId - 1))

InitStore ==
    /\ hasKey = FALSE
    /\ aiAvailable = FALSE
    /\ req = [r \in Reqs |-> IdleReq]
    /\ users = {UserDoc(1, "a@x.io"), UserDoc(2, "b@x.io")}
    /\ tasksDb \in {StoreOf(n) : n \in StoreSizes}
    /\ reg = [g \in Regs |-> IdleReg]
    /\ crud = NoResponse
    /\ nextId = FirstFreeId

\* POST /tasks
CreateTask(user, status) ==
    /\ user \in CurrentUsers
    /\ nextId < FirstFreeId + MaxCreated
    /\ tasksDb' = tasksDb \cup {TaskDoc(nextId, user, status)}
    /\ nextId' = nextId + 1
    /\ crud' = Response("create", user, nextId, 200, 0)
    /\ UNCHANGED <<hasKey, aiAvailable, req, users, reg>>

\* GET /tasks/{task_id}
GetTask(user, id) ==
    /\ user \in CurrentUsers
    /\ crud' = Response("get", user, id,
                        IF Matching(id, user, tasksDb) = {} THEN 404 ELSE 200, 0)
    /\ UNCHANGED <<hasKey, aiAvailable, req, users, tasksDb, reg, nextId>>

\* DELETE /tasks/{task_id}: delete_one removes one matching document
DeleteTask(user, id) ==
    /\ user \in CurrentUsers
    /\ LET matched == Matching(id, user, tasksDb)
       IN  IF matched = {}
           THEN /\ tasksDb' = tasksDb
                /\ crud' = Response("delete", user, id, 404, 0)
           ELSE /\ \E t \in matched : tasksDb' = tasksDb \ {t}
                /\ crud' = Response("delete", user, id, 200, 0)
    /\ UNCHANGED <<hasKey, aiAvailable, req, users, reg, nextId>>

\* GET /dashboard/stats
GetDashboardStats(user) ==
    /\ user \in CurrentUsers
    /\ crud' = Response("stats", user, 0, 200, DashboardTotal(user, tasksDb))
    /\ UNCHANGED <<hasKey, aiAvailable, req, users, tasksDb, reg, nextId>>

NextStore ==
    \E user \in CurrentUsers :
        \/ \E status \in Statuses : CreateTask(user, status)
        \/ \E id \in RequestedIds : GetTask(user, id)
        \/ \E id \in RequestedIds : DeleteTask(user, id)
        \/ GetDashboardStats(user)

SpecStore == InitStore /\ [][NextStore]_vars

\* ---------------------------------------------------------------- registration
Emails == {"a@x.io", "b@x.io"}

\* find_one({"email": user.email})
UsersWithEmail(email, db) == {u \in db : u.email = email}

InitRegister ==
    /\ hasKey = FALSE
    /\ aiAvailable = FALSE
    /\ req = [r \in Reqs |-> IdleReq]
    /\ users = {}
    /\ tasksDb = {}
    /\ reg = [g \in Regs |-> IdleReg]
    /\ crud = NoResponse
    /\ nextId = 1

\* register up to its first await: the lookup answers, and the request either
\* is rejected with 400 or goes on to build the user document.
RegisterLookup(g, email) ==
    /\ reg[g].pc = "idle"
    /\ reg' = [reg EXCEPT ![g] =
                  IF UsersWithEmail(email, users) # {}
                  THEN [pc |-> "done", email |-> email, code |-> 400]
                  ELSE [pc |-> "inserting", email |-> email, code |-> 0]]
    /\ UNCHANGED <<hasKey, aiAvailable, req, users, tasksDb, crud, nextId>>

\* register from insert_one to its return: the document, with a fresh id, is
\* added to db.users and the token is returned.
RegisterInsert(g) ==
    /\ reg[g].pc = "inserting"
    /\ users' = users \cup {UserDoc(nextId, reg[g].email)}
    /\ nextId' = nextId + 1
    /\ reg' = [reg EXCEPT ![g] = [pc |-> "done", email |-> reg[g].email, code |-> 200]]
    /\ UNCHANGED <<hasKey, aiAvailable, req, tasksDb, crud>>

\* The response is sent and the slot serves the next request.
RegisterReturn(g) ==
    /\ reg[g].pc = "done"
    /\ reg' = [reg EXCEPT ![g] = IdleReg]
    /\ UNCHANGED <<hasKey, aiAvailable, req, users, tasksDb, crud, nextId>>

NextRegister ==
    \E g \in Regs :
        \/ \E email \in Emails : RegisterLookup(g, email)
        \/ RegisterInsert(g)
        \/ RegisterReturn(g)

SpecRegister == InitRegister /\ [][NextRegister]_vars

\* ================================================================ claims
Done(r) == req[r].pc = "done"
DoneAnalyze(r) == Done(r) /\ req[r].op = "analyze"
DoneSummary(r) == Done(r) /\ req[r].op = "summary"

\* OperatingMode as the specification defines it
HeuristicMode == ~hasKey \/ ~aiAvailable
AIMode == hasKey /\ aiAvailable

\* The label the specification assigns to a score
LabelOf(score) == IF score >= 8 THEN "high" ELSE IF score >= 5 THEN "medium" ELSE "low"

\* due_date - now of a request, in seconds
DeltaSeconds(r) == req[r].due.ts - req[r].now

\* C1: in Heuristic mode, a due date with 0 < delta_hours <= 3 gives
\* urgency_score >= 8 and suggested_priority "high", whatever keywords match.
C1_HardFloorWhateverKeywords ==
    \A r \in Reqs :
        (DoneAnalyze(r) /\ HeuristicMode /\ req[r].due.present
            /\ 0 < DeltaSeconds(r) /\ DeltaSeconds(r) <= 3 * 3600)
        => (req[r].res.val.urgency_score >= 8
            /\ req[r].res.val.suggested_priority = "high")

\* C2: generate_task_summary returns the fixed empty result, without invoking
\* the chat client, whenever the task list is empty or the mode is Heuristic.
C2_EmptyResultInHeuristicMode ==
    \A r \in Reqs :
        (req[r].op = "summary" /\ (req[r].tasks = <<>> \/ HeuristicMode))
        => (req[r].calls = 0 /\ (Done(r) => req[r].res = Ok(EmptySummary)))

\* The field values the parser accepts: a string for the text fields, a list
\* for the list fields, and for urgency_score what int() converts
AcceptedText(fv) == fv.t \in {"absent", "str"}
AcceptedList(fv) == fv.t \in {"absent", "list"}
AcceptedScore(fv) ==
    \/ fv.t \in {"absent", "int", "float"}
    \/ fv.t = "str" /\ fv.s # "" /\ \A i \in 1..Len(fv.s) : IsDigit(SubSeq(fv.s, i, i))

AcceptedPriorityReply(reply) ==
    /\ reply.shape = "object"
    /\ AcceptedText(reply.fields["suggested_priority"])
    /\ AcceptedText(reply.fields["reasoning"])
    /\ AcceptedScore(reply.fields["urgency_score"])

AcceptedSummaryReply(reply) ==
    /\ reply.shape = "object"
    /\ AcceptedText(reply.fields["summary"])
    /\ AcceptedList(reply.fields["insights"])
    /\ AcceptedList(reply.fields["recommendations"])

\* The request got a reply from the chat client (the client did not raise)
Replied(r) == req[r].calls = 1 /\ ~req[r].failed

\* C3 (as stated): every returned PriorityAnalysis, on every path, has the
\* label of its score.
C3_LabelFollowsScoreEverywhere ==
    \A r \in Reqs :
        DoneAnalyze(r) =>
            req[r].res.val.suggested_priority = LabelOf(req[r].res.val.urgency_score)

\* C3 (amended): the heuristic result, the parse fallback and the degraded
\* result have the label of their score; only a result built from the fields
\* of a parsed reply may differ.
C3_LabelFollowsScoreOffParsedReply ==
    \A r \in Reqs :
        (DoneAnalyze(r) /\ ~(Replied(r) /\ AcceptedPriorityReply(req[r].reply)))
        => (/\ ~req[r].res.exc
            /\ req[r].res.val.suggested_priority = LabelOf(req[r].res.val.urgency_score))

C3_Witness ==
    \E r \in Reqs :
        /\ DoneAnalyze(r) /\ HeuristicMode /\ req[r].calls = 0
        /\ req[r].res.val.urgency_score = 8
        /\ req[r].res.val.suggested_priority = "high"

\* C4: in Heuristic mode the returned urgency_score is an integer in [1,10]
\* for every title, description and due date.
C4_HeuristicScoreInRange ==
    \A r \in Reqs :
        (DoneAnalyze(r) /\ HeuristicMode)
        => (~req[r].res.exc /\ req[r].res.val.urgency_score \in 1..10)

\* the rules add up to more than 10 and the clamp brings the score back
C4_Witness ==
    \E r \in Reqs :
        /\ DoneAnalyze(r) /\ HeuristicMode
        /\ RawScore(req[r].title, req[r].description, req[r].due, req[r].now).score > 10
        /\ req[r].res.val.urgency_score = 10

\* A fully populated PriorityAnalysis / TaskSummary
IsPriorityAnalysis(v) ==
    /\ DOMAIN v = {"suggested_priority", "reasoning", "urgency_score"}
    /\ v.suggested_priority \in STRING
    /\ v.reasoning \in STRING
    /\ v.urgency_score \in Int

IsTaskSummary(v) ==
    /\ DOMAIN v = {"summary", "insights", "recommendations"}
    /\ v.summary \in STRING
    /\ \A i \in 1..Len(v.insights) : v.insights[i] \in STRING
    /\ \A i \in 1..Len(v.recommendations) : v.recommendations[i] \in STRING

\* C5: neither function lets an exception reach its caller: every call that
\* ends returns a fully populated PriorityAnalysis or TaskSummary, in every
\* mode, for every input and whatever the chat client does.
C5_NeverRaises ==
    \A r \in Reqs :
        Done(r) =>
            /\ ~req[r].res.exc
            /\ req[r].op = "analyze" => IsPriorityAnalysis(req[r].res.val)
            /\ req[r].op = "summary" => IsTaskSummary(req[r].res.val)

\* the chat client raised, and the call still returned a result
C5_Witness ==
    \E r \in Reqs :
        /\ Done(r) /\ req[r].op = "summary" /\ req[r].failed
        /\ ~req[r].res.exc /\ IsTaskSummary(req[r].res.val)

\* C6: in AI mode, when the chat client fails during analyze_task_priority the
\* result is the fixed degraded value, whatever the title, description and due
\* date; the heuristic engine is not used.
C6_DegradedOnAdapterFailure ==
    \A r \in Reqs :
        (DoneAnalyze(r) /\ AIMode /\ req[r].failed)
        => req[r].res = Ok([suggested_priority |-> "medium",
                            reasoning |-> "Priority analysis temporarily unavailable",
                            urgency_score |-> 5])

\* the client failed on a task the heuristic engine would have scored 10
C6_Witness ==
    \E r \in Reqs :
        /\ DoneAnalyze(r) /\ AIMode /\ req[r].failed
        /\ Heuristic(req[r].title, req[r].description, req[r].due, 0).urgency_score = 10
        /\ req[r].res.val.urgency_score = 5

\* The value a field-by-field parser gives a text / list / score field
TextOr(fv, default) == IF fv.t = "str" THEN fv.s ELSE default
ListOr(fv, default) == IF fv.t = "list" THEN fv.l ELSE default
ScoreOr(fv, default) == IF fv.t = "int" THEN fv.n ELSE default

\* C7 (as stated): when the reply parses as a JSON object, each field that is
\* missing or of the wrong type gets its default and every other field is kept.
C7_DefaultsFieldByField ==
    \A r \in Reqs :
        (Done(r) /\ Replied(r) /\ req[r].reply.shape = "object") =>
            LET f == req[r].reply.fields IN
            /\ req[r].op = "analyze" =>
                 req[r].res.val =
                    [suggested_priority |-> TextOr(f["suggested_priority"], "medium"),
                     reasoning |-> TextOr(f["reasoning"], "Analysis completed"),
                     urgency_score |-> ScoreOr(f["urgency_score"], 5)]
            /\ req[r].op = "summary" =>
                 req[r].res.val =
                    [summary |-> TextOr(f["summary"], "Task analysis completed"),
                     insights |-> ListOr(f["insights"], <<>>),
                     recommendations |-> ListOr(f["recommendations"], <<>>)]

\* C7 (amended): when the reply parses as a JSON object, a missing field gets
\* its default and a present field is kept (urgency_score as int() converts
\* it) provided every present field is accepted; if some present field is
\* rejected, no field is kept and the result is the whole-reply parse fallback.
C7_DefaultsForMissingFallbackForRejected ==
    \A r \in Reqs :
        (Done(r) /\ Replied(r) /\ req[r].reply.shape = "object") =>
            LET f == req[r].reply.fields IN
            /\ req[r].op = "analyze" =>
                 req[r].res.val =
                    IF AcceptedPriorityReply(req[r].reply)
                    THEN [suggested_priority |-> TextOr(f["suggested_priority"], "medium"),
                          reasoning |-> TextOr(f["reasoning"], "Analysis completed"),
                          urgency_score |-> IF f["urgency_score"].t = "absent" THEN 5
                                            ELSE IntOf(f["urgency_score"]).val]
                    ELSE [suggested_priority |-> "medium",
                          reasoning |-> "AI suggested medium priority based on task analysis",
                          urgency_score |-> 5]
            /\ req[r].op = "summary" =>
                 req[r].res.val =
                    IF AcceptedSummaryReply(req[r].reply)
                    THEN [summary |-> TextOr(f["summary"], "Task analysis completed"),
                          insights |-> ListOr(f["insights"], <<>>),
                          recommendations |-> ListOr(f["recommendations"], <<>>)]
                    ELSE [summary |-> Truncate(req[r].reply.text),
                          insights |-> <<"AI analysis completed">>,
                          recommendations |-> <<"Continue managing tasks effectively">>]

\* a reply without suggested_priority: the default joins the two kept fields
C7_Witness ==
    \E r \in Reqs :
        /\ DoneAnalyze(r) /\ Replied(r) /\ req[r].reply.shape = "object"
        /\ req[r].reply.fields["suggested_priority"].t = "absent"
        /\ req[r].reply.fields["reasoning"] = JStr("because")
        /\ req[r].reply.fields["urgency_score"] = JInt(9)
        /\ req[r].res.val = [suggested_priority |-> "medium", reasoning |-> "because",
                             urgency_score |-> 9]

\* C8: in AI mode every PriorityAnalysis parsed from a reply has
\* suggested_priority among low/medium/high and urgency_score in [1,10].
C8_ParsedAnalysisWithinType ==
    \A r \in Reqs :
        (DoneAnalyze(r) /\ AIMode /\ Replied(r))
        => (/\ req[r].res.val.suggested_priority \in {"low", "medium", "high"}
            /\ req[r].res.val.urgency_score \in 1..10)

\* C9: analyze_task_priority invokes the chat client only when the credential
\* is present and the client library is loadable; when either is missing it
\* returns the heuristic engine's result and makes no adapter call.
C9_AIPathNeedsKeyAndLibrary ==
    \A r \in Reqs :
        req[r].op = "analyze" =>
            /\ req[r].calls > 0 => (hasKey /\ aiAvailable)
            /\ (HeuristicMode /\ Done(r)) =>
                 /\ req[r].calls = 0
                 /\ req[r].res = Ok(Heuristic(req[r].title, req[r].description,
                                              req[r].due, req[r].now))

\* the credential is set, the library is missing: the heuristic engine answers
C9_Witness ==
    \E r \in Reqs :
        /\ DoneAnalyze(r) /\ hasKey /\ ~aiAvailable /\ req[r].calls = 0
        /\ req[r].title = "Submit report now"
        /\ req[r].res.val.reasoning = "High-urgency keywords detected"

\* C10: in Heuristic mode, with no due date and a description of fewer than
\* 40 words, the score is 5 + 3*[a high-urgency keyword matches]
\* + 1*[a medium-urgency keyword matches] - 2*[a low-urgency keyword matches]:
\* the checks are independent and each counts once.
C10_KeywordChecksIndependent ==
    \A r \in Reqs :
        (DoneAnalyze(r) /\ HeuristicMode /\ ~req[r].due.present
            /\ WordCount(req[r].description.text) < 40)
        => LET text == Lower(req[r].title \o " " \o FormatDescription(req[r].description))
               s == 5 + (IF AnyIn(high_words, text) THEN 3 ELSE 0)
                      + (IF AnyIn(med_words, text) THEN 1 ELSE 0)
                      - (IF AnyIn(low_words, text) THEN 2 ELSE 0)
           IN /\ req[r].res.val.urgency_score = s
              /\ req[r].res.val.suggested_priority = LabelOf(s)
              /\ (req[r].title = "Submit report now" /\ req[r].description.text = "")
                    => (s = 8 /\ req[r].res.val.suggested_priority = "high")
              /\ (req[r].title = "Someday idea" /\ req[r].description.text = "")
                    => (s = 3 /\ req[r].res.val.suggested_priority = "low")

\* two low-urgency keywords ("someday", "idea") count once
C10_Witness ==
    \E r \in Reqs :
        /\ DoneAnalyze(r) /\ HeuristicMode /\ ~req[r].due.present
        /\ req[r].title = "Someday idea" /\ req[r].description = SomeDescription("")
        /\ req[r].res.val.urgency_score = 3
        /\ req[r].res.val.suggested_priority = "low"

\* C12: in AI mode with a non-empty task list, when the chat client fails
\* during generate_task_summary the result is one fixed degraded TaskSummary,
\* the same for every task list, with a non-empty insight and recommendation,
\* and different from the empty-list result.
C12_DegradedSummaryOnAdapterFailure ==
    \A r \in Reqs :
        (DoneSummary(r) /\ AIMode /\ req[r].tasks # <<>> /\ req[r].failed)
        => /\ req[r].res = Ok([summary |-> "AI analysis temporarily unavailable",
                               insights |-> <<"System is processing your tasks">>,
                               recommendations |-> <<"Continue with your current workflow">>])
           /\ req[r].res.val # [summary |-> "No tasks to summarize", insights |-> <<>>,
                                recommendations |-> <<>>]
           /\ Len(req[r].res.val.insights) = 1 /\ req[r].res.val.insights[1] # ""
           /\ Len(req[r].res.val.recommendations) = 1
           /\ req[r].res.val.recommendations[1] # ""

\* the client failed on a list of two tasks
C12_Witness ==
    \E r \in Reqs :
        /\ DoneSummary(r) /\ AIMode /\ Len(req[r].tasks) = 2 /\ req[r].failed
        /\ req[r].calls = 1
        /\ req[r].res.val.summary = "AI analysis temporarily unavailable"

\* The score after the due-date bucket the specification selects for delta
\* seconds, starting from the baseline 5, and the bucket's reason
BucketOf(delta) ==
    IF delta <= 0 THEN [score |-> 5 + 3, reason |-> "Past due: increase urgency"]
    ELSE IF delta <= 3 * 3600 THEN [score |-> 8, reason |-> "Due within 3 hours"]
    ELSE IF delta <= 24 * 3600 THEN [score |-> 5 + 4, reason |-> "Due within 24 hours"]
    ELSE IF delta <= 72 * 3600 THEN [score |-> 5 + 2, reason |-> "Due in 1-3 days"]
    ELSE IF delta <= 168 * 3600 THEN [score |-> 5 + 1, reason |-> "Due this week"]
    ELSE [score |-> 5 - 1, reason |-> "Due later than a week"]

BucketReasons ==
    {"Past due: increase urgency", "Due within 3 hours", "Due within 24 hours",
     "Due in 1-3 days", "Due this week", "Due later than a week"}

\* C14: in Heuristic mode with a due date, exactly one due-date bucket is
\* applied, the first that matches in the order <= 0 (+3), <= 3 h (max(score, 8)),
\* <= 24 h (+4), <= 72 h (+2), <= 168 h (+1), later (-1), upper limits inclusive;
\* a past-due task scores, before the clamp, at least 3 more than the same task
\* without a due date.
C14_OneDueDateBucket ==
    \A r \in Reqs :
        (DoneAnalyze(r) /\ HeuristicMode /\ req[r].due.present) =>
            LET b == BucketOf(DeltaSeconds(r))
                noDue == RawScore(req[r].title, req[r].description, NoDueDate, 0)
                withDue == RawScore(req[r].title, req[r].description, req[r].due, req[r].now)
                rest == noDue.score - 5
                s == b.score + rest
                clamped == IF s > 10 THEN 10 ELSE IF s < 1 THEN 1 ELSE s
            IN /\ withDue.score = s
               /\ req[r].res.val.urgency_score = clamped
               /\ withDue.reasons = <<b.reason>> \o noDue.reasons
               /\ Cardinality({i \in 1..Len(withDue.reasons) :
                                  withDue.reasons[i] \in BucketReasons}) = 1
               /\ DeltaSeconds(r) <= 0 => withDue.score >= noDue.score + 3

\* a due date exactly 3 hours ahead falls in the 3-hour bucket
C14_Witness ==
    \E r \in Reqs :
        /\ DoneAnalyze(r) /\ HeuristicMode /\ req[r].due.present
        /\ DeltaSeconds(r) = 3 * 3600
        /\ req[r].title = "Plan"
        /\ req[r].res.val.reasoning = "Due within 3 hours"
        /\ req[r].res.val.urgency_score = 8

\* C15: no retries: in every execution the chat client is invoked at most
\* once; the step that ends the wait, whether the client failed or replied,
\* leads straight to the return, with no second call, and an unparseable
\* reply gives the fallback result of its stage.
C15_NoRetries ==
    [][\A r \in Reqs :
          /\ req'[r].calls <= 1
          /\ (req[r].pc = "awaiting" /\ req'[r] # req[r]) =>
                /\ req'[r].pc = "done"
                /\ req'[r].calls = req[r].calls
                /\ req'[r].failed =>
                     req'[r].res = IF req[r].op = "analyze"
                                   THEN Ok([suggested_priority |-> "medium",
                                            reasoning |-> "Priority analysis temporarily unavailable",
                                            urgency_score |-> 5])
                                   ELSE Ok([summary |-> "AI analysis temporarily unavailable",
                                            insights |-> <<"System is processing your tasks">>,
                                            recommendations |->
                                                <<"Continue with your current workflow">>])
                /\ (~req'[r].failed /\ req'[r].reply.shape \in {"text", "array"}) =>
                     req'[r].res = IF req[r].op = "analyze"
                                   THEN Ok([suggested_priority |-> "medium",
                                            reasoning |->
                                              "AI suggested medium priority based on task analysis",
                                            urgency_score |-> 5])
                                   ELSE Ok([summary |-> Truncate(req'[r].reply.text),
                                            insights |-> <<"AI analysis completed">>,
                                            recommendations |->
                                                <<"Continue managing tasks effectively">>])]_vars

\* the client failed once and the call has returned
C15_Witness ==
    \E r \in Reqs :
        /\ DoneAnalyze(r) /\ req[r].failed /\ req[r].calls = 1
        /\ req[r].res.val.reasoning = "Priority analysis temporarily unavailable"

\* What a call was given: its function, its arguments, the instant it read
\* and what the chat client did
SameCall(r, q) ==
    /\ req[r].op = req[q].op
    /\ req[r].title = req[q].title
    /\ req[r].description = req[q].description
    /\ req[r].due = req[q].due
    /\ req[r].now = req[q].now
    /\ req[r].tasks = req[q].tasks
    /\ req[r].failed = req[q].failed
    /\ req[r].reply = req[q].reply

C13_DeleteLowersTotalByOne ==
    [][ /\ tasksDb' # tasksDb /\ crud'.op = "delete" /\ crud'.code = 200
           => /\ DashboardTotal(crud'.user, tasksDb')
                    = DashboardTotal(crud'.user, tasksDb) - 1
              /\ Matching(crud'.id, crud'.user, tasksDb') = {}
        /\ \A user \in CurrentUsers, id \in RequestedIds :
               DeleteTask(user, id) /\ Matching(id, user, tasksDb) = {}
                   => crud'.code = 404 /\ tasksDb' = tasksDb ]_vars

\* C16: whatever the interleaving of the register requests, db.users holds at
\* most one document per email, and a register for an email that is registered
\* is rejected with 400 and inserts nothing.
C16_OneUserPerEmail ==
    /\ [](\A email \in Emails : Cardinality(UsersWithEmail(email, users)) <= 1)
    /\ [][\A g \in Regs :
             reg[g].pc = "idle" /\ reg'[g].pc # "idle"
                 /\ UsersWithEmail(reg'[g].email, users) # {}
                 => reg'[g].code = 400 /\ users' = users]_vars

============================================================================
